---- MODULE Spec2Model ----
(***************************************************************************)
(* Flex-SH: the command parser (core/parser.rs), the process executor      *)
(* (core/executor.rs) and the shell loop that drives them (core/shell.rs). *)
(*                                                                         *)
(* A string is a sequence of one-character strings, so that the code's     *)
(* character scans (tokenize, find('='), contains('/')) are computed.      *)
(* Option<T> is a sequence of length 0 (None) or 1 (Some).                 *)
(***************************************************************************)
EXTENDS Integers, Sequences, FiniteSets, TLC

\* ------------------------------------------------------------------------
\* Bounds of the model
\* ------------------------------------------------------------------------

\* the longest pipeline typed at the prompt, in stages
MaxStages == 3

\* ------------------------------------------------------------------------
\* Strings
\* ------------------------------------------------------------------------

None == << >>

Some(x) == << x >>

Letters ==
  { "a", "b", "c", "d", "e", "f", "g", "h", "i", "j", "k", "l", "m",
    "n", "o", "p", "q", "r", "s", "t", "u", "v", "w", "x", "y", "z",
    "A", "B", "C", "D", "E", "F", "G", "H", "I", "J", "K", "L", "M",
    "N", "O", "P", "Q", "R", "S", "T", "U", "V", "W", "X", "Y", "Z" }

\* str::find(ch): Some(0-based index of the first ch), None when absent
RECURSIVE find_from(_, _, _)
find_from(s, ch, k) ==
  IF k > Len(s) THEN None
  ELSE IF s[k] = ch THEN Some(k - 1)
  ELSE find_from(s, ch, k + 1)

find(s, ch) == find_from(s, ch, 1)

contains(s, ch) == find(s, ch) # None

\* str::trim on the whitespace the model's lines use
IsSpace(ch) == ch \in { " ", "\t" }

RECURSIVE trim_start(_)
trim_start(s) ==
  IF s # << >> /\ IsSpace(Head(s)) THEN trim_start(Tail(s)) ELSE s

RECURSIVE trim_end(_)
trim_end(s) ==
  IF s # << >> /\ IsSpace(s[Len(s)]) THEN trim_end(SubSeq(s, 1, Len(s) - 1)) ELSE s

trim(s) == trim_end(trim_start(s))

\* the words the model types
W_a == << "a" >>

W_b == << "b" >>

W_nosuch == << "n", "o", "s", "u", "c", "h" >>

W_exit == << "e", "x", "i", "t" >>

W_alias == << "a", "l", "i", "a", "s" >>

W_cd == << "c", "d" >>

W_which == << "w", "h", "i", "c", "h" >>

W_pipe == << "|" >>

W_amp == << "&" >>

W_lt == << "<" >>

W_gt == << ">" >>

W_gtgt == << ">", ">" >>

\* ------------------------------------------------------------------------
\* core/parser.rs
\* ------------------------------------------------------------------------

Ok(v) == [ok |-> TRUE, val |-> v]

Err(e) == [ok |-> FALSE, err |-> e]

\* ParsedCommand::new
ParsedCommand(program) ==
  [ program         |-> program,
    args            |-> << >>,
    input_redirect  |-> None,
    output_redirect |-> None,
    append_redirect |-> None,
    background      |-> FALSE,
    pipes           |-> << >>,
    environment     |-> << >> ]

\* a backslash that escapes wherever it stands
starts_escape_anywhere(ch, in_quotes) == ch = "\\"

\* a backslash that never escapes
starts_escape_never(ch, in_quotes) == FALSE

\* tokenize, the arm '\\' if in_quotes
starts_escape(ch, in_quotes) == ch = "\\" /\ in_quotes

\* a quote that either quote character closes
closes_quote_any(ch, quote_char) == TRUE

\* tokenize, the test ch == quote_char inside quotes
closes_quote(ch, quote_char) == ch = quote_char

\* Parser::tokenize, the loop over input.chars() from character k on
RECURSIVE tokenize_loop(_, _, _, _, _, _, _)
tokenize_loop(input, k, tokens, current_token, in_quotes, quote_char, escape_next) ==
  IF k > Len(input)
  THEN IF in_quotes THEN Err("Unterminated quote")
       ELSE IF current_token # << >> THEN Ok(Append(tokens, current_token))
       ELSE Ok(tokens)
  ELSE LET ch == input[k] IN
    IF escape_next
    THEN tokenize_loop(input, k + 1, tokens, Append(current_token, ch),
                       in_quotes, quote_char, FALSE)
    ELSE IF starts_escape(ch, in_quotes)
    THEN tokenize_loop(input, k + 1, tokens, current_token, in_quotes, quote_char, TRUE)
    ELSE IF ch \in { "\"", "'" }
    THEN IF ~in_quotes
         THEN tokenize_loop(input, k + 1, tokens, current_token, TRUE, ch, FALSE)
         ELSE IF closes_quote(ch, quote_char)
         THEN tokenize_loop(input, k + 1, tokens, current_token, FALSE, quote_char, FALSE)
         ELSE tokenize_loop(input, k + 1, tokens, Append(current_token, ch),
                            in_quotes, quote_char, FALSE)
    ELSE IF ch \in { " ", "\t" } /\ ~in_quotes
    THEN IF current_token # << >>
         THEN tokenize_loop(input, k + 1, Append(tokens, current_token), << >>,
                            in_quotes, quote_char, FALSE)
         ELSE tokenize_loop(input, k + 1, tokens, current_token,
                            in_quotes, quote_char, FALSE)
    ELSE tokenize_loop(input, k + 1, tokens, Append(current_token, ch),
                       in_quotes, quote_char, FALSE)

tokenize(input) == tokenize_loop(input, 1, << >>, << >>, FALSE, "\"", FALSE)

\* HashMap::insert on a map kept as a function
Insert(map, key, value) ==
  [k \in (DOMAIN map) \cup {key} |-> IF k = key THEN value ELSE map[k]]

EmptyMap == << >>

\* Parser::set_alias
set_alias(table, name, value) == Insert(table, name, value)

\* a token of the form NAME=value that the first loop of parse_tokens removes
IsAssignment(token) ==
  LET eq == find(token, "=") IN
    /\ eq # None
    /\ eq[1] > 0
    /\ token[1] \in Letters

RECURSIVE strip_environment(_, _, _)

\* a loop that takes the value from the '=' on, not from the character after it
strip_environment_keeps_eq(tokens, i, environment) ==
  IF i > Len(tokens) THEN [tokens |-> tokens, environment |-> environment]
  ELSE IF IsAssignment(tokens[i])
  THEN LET eq_pos == find(tokens[i], "=")[1]
           var    == SubSeq(tokens[i], 1, eq_pos)
           value  == SubSeq(tokens[i], eq_pos + 1, Len(tokens[i]))
       IN strip_environment(SubSeq(tokens, 1, i - 1) \o SubSeq(tokens, i + 1, Len(tokens)),
                            i, Insert(environment, var, value))
  ELSE strip_environment(tokens, i + 1, environment)

\* parse_tokens, first loop: every NAME=value token is taken out of the line
strip_environment(tokens, i, environment) ==
  IF i > Len(tokens) THEN [tokens |-> tokens, environment |-> environment]
  ELSE IF IsAssignment(tokens[i])
  THEN LET eq_pos == find(tokens[i], "=")[1]
           var    == SubSeq(tokens[i], 1, eq_pos)
           value  == SubSeq(tokens[i], eq_pos + 2, Len(tokens[i]))
       IN strip_environment(SubSeq(tokens, 1, i - 1) \o SubSeq(tokens, i + 1, Len(tokens)),
                            i, Insert(environment, var, value))
  ELSE strip_environment(tokens, i + 1, environment)

\* parse_tokens, second loop, from token i (1-based) on
RECURSIVE parse_tokens(_, _)
RECURSIVE parse_walk(_, _, _, _)
parse_walk(aliases, tokens, i, command) ==
  IF i > Len(tokens) THEN Ok(command)
  ELSE IF tokens[i] = W_lt
  THEN IF i + 1 <= Len(tokens)
       THEN parse_walk(aliases, tokens, i + 2,
                       [command EXCEPT !.input_redirect = Some(tokens[i + 1])])
       ELSE Err("Expected filename after '<'")
  ELSE IF tokens[i] = W_gt
  THEN IF i + 1 <= Len(tokens)
       THEN parse_walk(aliases, tokens, i + 2,
                       [command EXCEPT !.output_redirect = Some(tokens[i + 1])])
       ELSE Err("Expected filename after '>'")
  ELSE IF tokens[i] = W_gtgt
  THEN IF i + 1 <= Len(tokens)
       THEN parse_walk(aliases, tokens, i + 2,
                       [command EXCEPT !.append_redirect = Some(tokens[i + 1])])
       ELSE Err("Expected filename after '>>'")
  ELSE IF tokens[i] = W_amp
  THEN parse_walk(aliases, tokens, i + 1, [command EXCEPT !.background = TRUE])
  ELSE IF tokens[i] = W_pipe
  THEN LET remaining_tokens == SubSeq(tokens, i + 1, Len(tokens)) IN
         IF remaining_tokens # << >>
         THEN LET pipe_command == parse_tokens(aliases, remaining_tokens) IN
                IF pipe_command.ok
                THEN Ok([command EXCEPT !.pipes = Append(@, pipe_command.val)])
                ELSE pipe_command
         ELSE Ok(command)
  ELSE parse_walk(aliases, tokens, i + 1, [command EXCEPT !.args = Append(@, tokens[i])])

\* Parser::parse_tokens
parse_tokens(aliases, tokens0) ==
  IF tokens0 = << >> THEN Err("No tokens to parse")
  ELSE LET stripped == strip_environment(tokens0, 1, EmptyMap)
           tokens   == stripped.tokens
       IN IF tokens = << >> THEN Err("No command found after environment variables")
          ELSE LET program == IF tokens[1] \in DOMAIN aliases
                              THEN aliases[tokens[1]] ELSE tokens[1]
                   command == [ParsedCommand(program) EXCEPT
                                 !.environment = stripped.environment]
               IN parse_walk(aliases, tokens, 2, command)

\* a parse that tokenizes its input without testing that it is not empty
parse_unchecked(aliases, line) ==
  LET input  == trim(line)
      tokens == tokenize(input)
  IN IF ~tokens.ok THEN tokens
     ELSE IF tokens.val # << >> /\ tokens.val[1] \in DOMAIN aliases
     THEN LET alias_tokens == tokenize(aliases[tokens.val[1]]) IN
            IF ~alias_tokens.ok THEN alias_tokens
            ELSE parse_tokens(aliases, alias_tokens.val \o Tail(tokens.val))
     ELSE parse_tokens(aliases, tokens.val)

\* Parser::parse
parse(aliases, line) ==
  LET input == trim(line) IN
    IF input = << >> THEN Err("Empty command")
    ELSE LET tokens == tokenize(input) IN
      IF ~tokens.ok THEN tokens
      ELSE IF tokens.val # << >> /\ tokens.val[1] \in DOMAIN aliases
      THEN LET alias_tokens == tokenize(aliases[tokens.val[1]]) IN
             IF ~alias_tokens.ok THEN alias_tokens
             ELSE parse_tokens(aliases, alias_tokens.val \o Tail(tokens.val))
      ELSE parse_tokens(aliases, tokens.val)

\* ------------------------------------------------------------------------
\* The file system and PATH the shell runs with
\* ------------------------------------------------------------------------

\* PATH, split at the separator: an empty entry, a missing directory, two real ones
PATH == << "", "/missing", "/bin", "/usr/bin" >>

Directories == { "/bin", "/usr/bin" }

\* the regular files of each directory of the file system
VARIABLE files

\* the regular files of each directory the shell is run with
InstalledFiles ==
  [dir \in Directories |-> IF dir = "/bin" THEN { W_a } ELSE { W_a, W_b }]

\* the regular files of a directory
FilesIn(dir) == IF dir \in DOMAIN files THEN files[dir] ELSE { }

\* a directory written as a path
DirText(dir) ==
  IF dir = "/bin" THEN << "/", "b", "i", "n" >>
  ELSE << "/", "u", "s", "r", "/", "b", "i", "n" >>

\* the home directory, and a directory the process may not enter
HomeDirectory == << "/", "h", "o", "m", "e" >>

LockedDirectory == << "/", "l", "o", "c", "k", "e", "d" >>

\* the directories that hold no program
OtherDirectories ==
  { << "/" >>, << "/", "u", "s", "r" >>, HomeDirectory, LockedDirectory }

\* paths written with a separator that are directories
DirectoryPaths == { DirText(dir) : dir \in Directories } \cup OtherDirectories

\* paths written with a separator that exist: the directories and their files
ExistingPaths ==
  DirectoryPaths \cup
    UNION { { DirText(dir) \o << "/" >> \o f : f \in FilesIn(dir) } : dir \in Directories }

\* files that File::open can open, and files File::create cannot create
ReadableFiles == { << "i", "n" >> }

UncreatableFiles == { << "r", "o" >> }

\* extensions that put cmd before exe
executable_extensions_cmd_first ==
  << << "c", "m", "d" >>, << "e", "x", "e" >>, << "b", "a", "t" >>, << "c", "o", "m" >> >>

\* the executable extensions probed in each PATH directory
executable_extensions ==
  << << "e", "x", "e" >>, << "c", "m", "d" >>, << "b", "a", "t" >>, << "c", "o", "m" >> >>

\* ------------------------------------------------------------------------
\* core/executor.rs: Executor::resolve_program_path
\* ------------------------------------------------------------------------

\* the first extension, from k on, whose candidate is a file of dir
RECURSIVE probe_extensions(_, _, _)
probe_extensions(dir, program_name, k) ==
  IF k > Len(executable_extensions) THEN None
  ELSE LET candidate == program_name \o << "." >> \o executable_extensions[k] IN
         IF candidate \in FilesIn(dir) THEN Some(<< dir, candidate >>)
         ELSE probe_extensions(dir, program_name, k + 1)

\* the loop over the directories of PATH, from entry k on
RECURSIVE search_path(_, _)
search_path(program_name, k) ==
  IF k > Len(PATH) THEN None
  ELSE LET path_dir == PATH[k] IN
    IF path_dir = "" \/ path_dir \notin Directories
    THEN search_path(program_name, k + 1)
    ELSE LET with_ext == probe_extensions(path_dir, program_name, 1) IN
      IF with_ext # None THEN with_ext
      ELSE IF program_name \in FilesIn(path_dir) THEN Some(<< path_dir, program_name >>)
      ELSE search_path(program_name, k + 1)

resolve_program_path(program_name) ==
  IF contains(program_name, "/") \/ contains(program_name, "\\")
  THEN IF program_name \in ExistingPaths THEN Some(<< "", program_name >>) ELSE None
  ELSE search_path(program_name, 1)

\* ------------------------------------------------------------------------
\* builtins/mod.rs, builtins/exit.rs
\* ------------------------------------------------------------------------

\* the code the shell loop takes as the request to terminate
ExitSentinel == 130

\* the code an interrupted foreground command returns
InterruptedCode == 130

\* the names get_builtin knows
BuiltinNames ==
  { W_exit,
    W_cd, << "e", "c", "h", "o" >>, << "h", "e", "l", "p" >>,
    << "h", "i", "s", "t", "o", "r", "y" >>, << "l", "s" >>, << "p", "w", "d" >>,
    W_alias, << "e", "n", "v" >>,
    W_which, << "c", "l", "e", "a", "r" >> }

get_builtin(name) == IF name \in BuiltinNames THEN Some(name) ELSE None

\* ExitCommand::execute: the status argument is parsed and dropped
ExitCommand_execute(cmd) == Ok(ExitSentinel)

\* builtins/which.rs, find_in_path: what is put after the name, in the order
\* it is tried in each directory
which_extensions ==
  << << >>, << ".", "e", "x", "e" >>, << ".", "b", "a", "t" >>,
     << ".", "c", "m", "d" >>, << ".", "c", "o", "m" >> >>

\* find_in_path, the loop over the extensions from the k-th on
RECURSIVE which_probe(_, _, _)
which_probe(dir, program, k) ==
  IF k > Len(which_extensions) THEN None
  ELSE LET full_path == program \o which_extensions[k] IN
         IF full_path \in FilesIn(dir) THEN Some(<< dir, full_path >>)
         ELSE which_probe(dir, program, k + 1)

\* find_in_path, the loop over the directories of PATH from entry k on
RECURSIVE find_in_path_from(_, _)
find_in_path_from(program, k) ==
  IF k > Len(PATH) THEN None
  ELSE LET found == which_probe(PATH[k], program, 1) IN
         IF found # None THEN found ELSE find_in_path_from(program, k + 1)

find_in_path(program) == find_in_path_from(program, 1)

\* WhichCommand::execute: 1 without operand or when a name is in no PATH
\* directory, else 0
WhichCommand_execute(cmd) ==
  IF cmd.args = << >> THEN Ok(1)
  ELSE Ok(IF \A k \in DOMAIN cmd.args : find_in_path(cmd.args[k]) # None THEN 0 ELSE 1)

\* ------------------------------------------------------------------------
\* builtins/cd.rs, utils/path.rs
\* ------------------------------------------------------------------------

\* Path::is_absolute
is_absolute(path) == path # << >> /\ path[1] = "/"

\* PathBuf::push of a relative path
push(dir, path) ==
  IF is_absolute(path) THEN path
  ELSE IF dir[Len(dir)] = "/" THEN dir \o path
  ELSE dir \o << "/" >> \o path

\* Path::components: the names between the separators
RECURSIVE components(_)
components(path) ==
  LET sep == find(path, "/") IN
    IF sep = None THEN (IF path = << >> THEN << >> ELSE << path >>)
    ELSE (IF sep[1] = 0 THEN << >> ELSE << SubSeq(path, 1, sep[1]) >>)
           \o components(SubSeq(path, sep[1] + 2, Len(path)))

\* the components of an absolute path with `.` and `..` followed
RECURSIVE follow(_, _)
follow(comps, taken) ==
  IF comps = << >> THEN taken
  ELSE IF Head(comps) = << "." >> THEN follow(Tail(comps), taken)
  ELSE IF Head(comps) = << ".", "." >>
  THEN follow(Tail(comps),
              IF taken = << >> THEN taken ELSE SubSeq(taken, 1, Len(taken) - 1))
  ELSE follow(Tail(comps), Append(taken, Head(comps)))

\* components written as an absolute path
RECURSIVE absolute_text(_)
absolute_text(comps) ==
  IF comps = << >> THEN << >>
  ELSE << "/" >> \o Head(comps) \o absolute_text(Tail(comps))

\* the place an absolute path leads to
place(path) ==
  LET taken == follow(components(path), << >>) IN
    IF taken = << >> THEN << "/" >> ELSE absolute_text(taken)

\* Path::exists, Path::is_dir, Path::canonicalize of an absolute path
exists(path) == place(path) \in ExistingPaths

is_dir(path) == place(path) \in DirectoryPaths

canonicalize(path) == IF exists(path) THEN Ok(place(path)) ELSE Err("not found")

\* std::env::set_current_dir
set_current_dir(path) ==
  IF path = LockedDirectory THEN Err("permission denied")
  ELSE IF is_dir(path) THEN Ok(path)
  ELSE Err("not a directory")

\* utils/path.rs expand_tilde
expand_tilde(path) ==
  IF path = << "~" >> THEN HomeDirectory
  ELSE IF Len(path) >= 2 /\ SubSeq(path, 1, 2) = << "~", "/" >>
  THEN push(HomeDirectory, SubSeq(path, 3, Len(path)))
  ELSE path

\* CdCommand::execute, the directory asked for
cd_target(cmd, dir, env) ==
  IF cmd.args = << >> THEN HomeDirectory
  ELSE LET path == cmd.args[1] IN
    IF path = << "-" >>
    THEN (IF env.OLDPWD # None THEN env.OLDPWD[1] ELSE dir)
    ELSE LET expanded_path == expand_tilde(path) IN
           IF is_absolute(expanded_path) THEN expanded_path
           ELSE push(dir, expanded_path)

\* the result of CdCommand::execute: its status, current_dir and the
\* process environment after it
CdResult(code, dir, env) == [val |-> Ok(code), current_dir |-> dir, process_env |-> env]

\* a cd that updates current_dir before the process has changed directory
CdCommand_execute_early(cmd, dir, env) ==
  LET target_dir == cd_target(cmd, dir, env) IN
    IF ~exists(target_dir) THEN CdResult(1, dir, env)
    ELSE LET canonical == canonicalize(target_dir)
             canonical_dir == IF canonical.ok THEN canonical.val ELSE target_dir
             changed == set_current_dir(canonical_dir)
             env_old == [env EXCEPT !.OLDPWD = Some(dir)]
         IN IF ~changed.ok THEN CdResult(1, canonical_dir, env_old)
            ELSE CdResult(0, canonical_dir,
                          [env_old EXCEPT !.PWD = Some(canonical_dir),
                                          !.cwd = canonical_dir])

\* CdCommand::execute
CdCommand_execute(cmd, dir, env) ==
  LET target_dir == cd_target(cmd, dir, env) IN
    IF ~exists(target_dir) THEN CdResult(1, dir, env)
    ELSE IF ~is_dir(target_dir) THEN CdResult(1, dir, env)
    ELSE LET env_old == [env EXCEPT !.OLDPWD = Some(dir)]
             canonical == canonicalize(target_dir)
             canonical_dir == IF canonical.ok THEN canonical.val ELSE target_dir
             changed == set_current_dir(canonical_dir)
         IN IF ~changed.ok THEN CdResult(1, dir, env_old)
            ELSE CdResult(0, canonical_dir,
                          [env_old EXCEPT !.PWD = Some(canonical_dir),
                                          !.cwd = canonical_dir])

\* AliasCommand::execute, the loop over command.args from argument k on: the
\* alias table after it (an argument without '=' only prints)
RECURSIVE alias_args(_, _, _)
alias_args(args, k, table) ==
  IF k > Len(args) THEN table
  ELSE LET arg    == args[k]
           eq_pos == find(arg, "=")
       IN IF eq_pos # None
          THEN LET name  == SubSeq(arg, 1, eq_pos[1])
                   value == SubSeq(arg, eq_pos[1] + 2, Len(arg))
               IN alias_args(args, k + 1, set_alias(table, trim(name), trim(value)))
          ELSE alias_args(args, k + 1, table)

\* AliasCommand::execute: its status and the alias table it leaves
AliasCommand_execute(cmd, table) ==
  [ val     |-> Ok(0),
    aliases |-> IF cmd.args = << >> THEN table ELSE alias_args(cmd.args, 1, table) ]

\* ------------------------------------------------------------------------
\* The lines typed at the prompt
\* ------------------------------------------------------------------------

\* the programs of a typed pipeline: one that resolves, one that does not
StageWords == { W_a, W_nosuch }

RECURSIVE PipelineText(_)
PipelineText(progs) ==
  IF Len(progs) = 1 THEN progs[1]
  ELSE progs[1] \o << " ", "|", " " >> \o PipelineText(Tail(progs))

StageLists == UNION { [1..n -> StageWords] : n \in 1..MaxStages }

\* a file that can be created, and a file that cannot be opened for reading
W_f == << "f" >>

W_no == << "n", "o" >>

W_ro == << "r", "o" >>

\* lines with a redirection, and a pipeline whose first stage is a built-in
RedirectLines ==
  { W_a \o << " " >> \o W_gt \o << " " >> \o W_f,
    W_a \o << " " >> \o W_lt \o << " " >> \o W_no,
    W_a \o << " ", "|", " " >> \o W_a \o << " " >> \o W_gt \o << " " >> \o W_ro }

\* which of a name no PATH directory holds, of one that /bin holds, and
\* without operand
WhichLines ==
  { W_which \o << " " >> \o W_nosuch, W_which \o << " " >> \o W_a, W_which }

\* lines Parser::parse fails on: a quote left open, a redirect without
\* target, assignments without command
SyntaxErrorLines ==
  { << "\"", "a" >>, W_a \o << " " >> \o W_gt, << "A", "=", "1" >> }

\* a line typed with a space in front
SpacePrefixedLines == { << " " >> \o W_which }

BuiltinPipeLines == { W_exit \o << " ", "|", " " >> \o W_a }

\* a blank line, the exit built-in, a background command, and the pipelines
Lines ==
  { << " " >>, W_exit, W_a \o << " ", "&" >> } \cup { PipelineText(p) : p \in StageLists }
    \cup RedirectLines \cup BuiltinPipeLines \cup WhichLines
    \cup SyntaxErrorLines \cup SpacePrefixedLines

\* Parser::parse of each line under the empty alias table
ParsedLines == [l \in Lines |-> parse(EmptyMap, l)]

\* exit statuses a child can end with: Some(code), or None when it has no code
Statuses == { Some(0), Some(130), None }

\* ------------------------------------------------------------------------
\* State
\* ------------------------------------------------------------------------

VARIABLES
  mode,                 \* "interactive": Shell::run; "command": Shell::execute_command
  pc,                   \* where the shell is: prompt, single_wait, pipeline_spawn,
                        \* pipeline_wait, exited
  aliases,              \* Parser.aliases
  line,                 \* the line read last
  command,              \* Option: the ParsedCommand given to Executor::execute
  children,             \* the processes spawned for the current line, in spawn order
  previous_stdout,      \* execute_pipeline: Option<Stdio>
  wait_i,               \* execute_pipeline: the process pipeline_fut waits on
  pipeline_exit_code,   \* execute_pipeline: exit_code
  ctrl_c,               \* the signal::ctrl_c() future of the select has resolved
  sigint_seen,          \* an interrupt was delivered while the current line ran
  result,               \* what the last line came to
  prev_interrupted,     \* the line before it was ended by an interrupt
  exit_code,            \* Shell.exit_code
  should_exit,          \* Shell.should_exit
  background_processes, \* Executor.background_processes: the registered pids
  resolved,             \* Option: the name resolve_program_path was given last,
                        \* and what it returned
  printed,              \* what cleanup_background_processes has printed
  cleanup_calls,        \* how often cleanup_background_processes was called
  process_status,       \* Option: the exit status of the shell process
  history,              \* Shell.history: entries, config, and the command of an
                        \* add call whose eviction loop is running
  current_dir,          \* Shell.current_dir
  process_env           \* the process: OLDPWD, PWD and its working directory

vars ==
  << mode, pc, aliases, line, command, children, previous_stdout, wait_i,
     pipeline_exit_code, ctrl_c, sigint_seen, result, prev_interrupted, exit_code,
     should_exit, background_processes, files, resolved, printed, cleanup_calls,
     process_status, history, current_dir, process_env >>

\* the working directory and the process environment stay as they are
DirectoryUnchanged == UNCHANGED << current_dir, process_env >>

\* the file system, the resolver's answer and the reaper's record stay as
\* they are, and the process has not ended
SessionUnchanged == UNCHANGED << files, resolved, printed, cleanup_calls, process_status >>

\* nothing outside the executor's state changes
OutsideUnchanged == SessionUnchanged /\ DirectoryUnchanged /\ UNCHANGED history

\* HistoryConfig: the configuration the shell of Spec is run with
ShellHistoryConfig ==
  [max_entries |-> 1, ignore_duplicates |-> TRUE, ignore_space_prefixed |-> TRUE]

\* History::new(config) with no history file to load
History_new(config) == [entries |-> << >>, config |-> config, adding |-> None]

\* the directory the shell is started in
StartDirectory == << "/" >>

\* Shell::new: the process has not ended, the history is empty, current_dir
\* is std::env::current_dir()
SessionStart ==
  /\ process_status = None
  /\ history = History_new(ShellHistoryConfig)
  /\ current_dir = StartDirectory
  /\ process_env = [OLDPWD |-> None, PWD |-> None, cwd |-> StartDirectory]

ResultOk(code, how) == [ok |-> TRUE, code |-> code, err |-> "", how |-> how]

ResultErr(err, how) == [ok |-> FALSE, code |-> 0, err |-> err, how |-> how]

Inherit == [kind |-> "inherit", name |-> << >>, id |-> 0]

Piped == [kind |-> "piped", name |-> << >>, id |-> 0]

Pty == [kind |-> "pty", name |-> << >>, id |-> 0]

FromFile(name, how) == [kind |-> how, name |-> name, id |-> 0]

\* what the child gets for a Stdio: Stdio::piped() makes a new pipe, id fresh
StdioOpen(stdio, fresh) ==
  IF stdio.kind = "piped" THEN [kind |-> "pipe", name |-> << >>, id |-> fresh]
  ELSE stdio

Child(stage, stdin, stdout) ==
  [ stage     |-> stage,
    state     |-> "running",
    status    |-> None,
    stdin     |-> stdin,
    stdout    |-> stdout,
    signalled |-> FALSE ]

\* status.code().unwrap_or(-1); for a PTY child, the code read from "Exited(n)"
ExitCodeOf(status) == IF status = None THEN -1 ELSE status[1]

Init ==
  /\ mode \in { "interactive", "command" }
  /\ pc = "prompt"
  /\ aliases = EmptyMap
  /\ line = << >>
  /\ command = None
  /\ children = << >>
  /\ previous_stdout = None
  /\ wait_i = 0
  /\ pipeline_exit_code = 0
  /\ ctrl_c = FALSE
  /\ sigint_seen = FALSE
  /\ result = ResultOk(0, "none")
  /\ prev_interrupted = FALSE
  /\ exit_code = 0
  /\ should_exit = FALSE
  /\ background_processes = { }
  /\ files = InstalledFiles
  /\ resolved = None
  /\ printed = { }
  /\ cleanup_calls = 0
  /\ SessionStart

\* ------------------------------------------------------------------------
\* core/shell.rs: what the shell records when Executor::execute has returned
\* ------------------------------------------------------------------------

\* a loop that ends the session on an error
ShellRecords_error_exits(res) ==
  IF mode = "interactive"
  THEN /\ exit_code' = (IF res.ok THEN res.code ELSE 1)
       /\ should_exit' = (should_exit \/ ~res.ok \/ res.code = ExitSentinel)
  ELSE /\ exit_code' = (IF res.ok THEN res.code ELSE exit_code)
       /\ UNCHANGED should_exit

\* run_interactive after the await (interactive), with the error arm of run;
\* execute_command after the await (command)
ShellRecords(res) ==
  IF mode = "interactive"
  THEN IF res.ok
       THEN /\ exit_code' = res.code
            /\ should_exit' = (should_exit \/ res.code = ExitSentinel)
       ELSE /\ exit_code' = 1
            /\ UNCHANGED should_exit
  ELSE /\ exit_code' = (IF res.ok THEN res.code ELSE exit_code)
       /\ UNCHANGED should_exit

\* Executor::execute returns res to the shell, the parser holding the alias
\* table parser_aliases; the locals of the call are gone
ReturnWith(res, parser_aliases) ==
  /\ pc' = "prompt"
  /\ result' = res
  /\ prev_interrupted' = (result.how = "interrupt")
  /\ previous_stdout' = None
  /\ wait_i' = 0
  /\ pipeline_exit_code' = 0
  /\ ShellRecords(res)
  /\ aliases' = parser_aliases
  /\ UNCHANGED << mode, background_processes >>

Return(res) == ReturnWith(res, aliases)

\* ------------------------------------------------------------------------
\* core/executor.rs: Executor::execute and what it calls
\* ------------------------------------------------------------------------

\* a listener that takes over what the last one was notified of
ctrl_c_listen_stale == ctrl_c

\* the signal::ctrl_c() future a select! creates: it starts unresolved,
\* whatever was notified before it was created
ctrl_c_listen == FALSE

\* Executor::execute_builtin
execute_builtin(cmd) ==
  IF cmd.program = W_exit
  THEN ResultOk(ExitCommand_execute(cmd).val, "builtin")
  ELSE IF cmd.program = W_which
  THEN ResultOk(WhichCommand_execute(cmd).val, "builtin")
  ELSE IF cmd.program = W_cd
  THEN ResultOk(CdCommand_execute(cmd, current_dir, process_env).val.val, "builtin")
  ELSE ResultOk(0, "builtin")

\* Executor::execute_builtin: current_dir and the process environment the
\* built-in leaves
execute_builtin_dir(cmd) ==
  IF cmd.program = W_cd THEN CdCommand_execute(cmd, current_dir, process_env)
  ELSE CdResult(0, current_dir, process_env)

\* Executor::execute_builtin: the alias table of the parser it was given
execute_builtin_parser(cmd) ==
  IF cmd.program = W_alias THEN AliasCommand_execute(cmd, aliases).aliases
  ELSE aliases

\* Executor::execute_single_command up to its select!
execute_single_command(cmd) ==
  IF ~cmd.background
  THEN IF resolve_program_path(cmd.program) = None
       THEN \* spawn_command(cmd_builder)? fails
            /\ children' = << >>
            /\ UNCHANGED ctrl_c
            /\ Return(ResultErr("spawn failed", "error"))
       ELSE /\ children' = << Child(0, Pty, Pty) >>
            /\ pc' = "single_wait"
            /\ ctrl_c' = ctrl_c_listen
            /\ UNCHANGED << mode, aliases, previous_stdout, wait_i, pipeline_exit_code,
                            result, prev_interrupted, exit_code, should_exit,
                            background_processes >>
  ELSE /\ children' = << >>
       /\ UNCHANGED ctrl_c
       /\ Return(ResultErr("Background job execution not implemented", "error"))

\* execute_pipeline: commands = [command] + command.pipes
Commands(cmd) == << cmd >> \o cmd.pipes

\* Executor::execute_pipeline up to its for loop
execute_pipeline(cmd) ==
  IF cmd.pipes = << >> THEN execute_single_command(cmd)
  ELSE /\ children' = << >>
       /\ pc' = "pipeline_spawn"
       /\ UNCHANGED << mode, aliases, previous_stdout, wait_i, pipeline_exit_code,
                       ctrl_c, result, prev_interrupted, exit_code, should_exit,
                       background_processes >>

\* Executor::execute
execute(cmd) ==
  IF get_builtin(cmd.program) # None
  THEN /\ children' = << >>
       /\ UNCHANGED ctrl_c
       /\ ReturnWith(execute_builtin(cmd), execute_builtin_parser(cmd))
       /\ current_dir' = execute_builtin_dir(cmd).current_dir
       /\ process_env' = execute_builtin_dir(cmd).process_env
  ELSE /\ DirectoryUnchanged
       /\ IF cmd.pipes = << >> THEN execute_single_command(cmd)
          ELSE execute_pipeline(cmd)

\* the line is parsed and, when it parses, executed (ParsedLines holds
\* parse of every line under the empty alias table, computed once)
ProcessLine(l) ==
  /\ line' = l
  /\ sigint_seen' = FALSE
  /\ LET parsed == IF aliases = EmptyMap /\ l \in Lines
                   THEN ParsedLines[l] ELSE parse(aliases, l) IN
       IF ~parsed.ok
       THEN /\ command' = None
            /\ children' = << >>
            /\ UNCHANGED ctrl_c
            /\ DirectoryUnchanged
            /\ Return(ResultErr(parsed.err, "parse_error"))
       ELSE /\ command' = Some(parsed.val)
            /\ execute(parsed.val)

\* ------------------------------------------------------------------------
\* core/history.rs: History::add
\* ------------------------------------------------------------------------

\* VecDeque::back and VecDeque::pop_front
back(entries) == IF entries = << >> THEN None ELSE Some(entries[Len(entries)])

pop_front(entries) == IF entries = << >> THEN entries ELSE Tail(entries)

\* a test that takes no command as a duplicate
is_duplicate_never(h, cmd) == FALSE

\* History::add: ignore_duplicates is set and the command is the last entry
is_duplicate(h, cmd) == h.config.ignore_duplicates /\ back(h.entries) = Some(cmd)

\* a loop test that lets the history grow one past max_entries
history_full_over(h) == Len(h.entries) > h.config.max_entries

\* History::add: the test of the while loop
history_full(h) == Len(h.entries) >= h.config.max_entries

\* History::add(cmd) up to its while loop: the three early returns leave the
\* history as it is, else the loop starts with the command to push
History_add_call(h, cmd) ==
  IF trim(cmd) = << >> THEN h
  ELSE IF h.config.ignore_space_prefixed /\ cmd[1] = " " THEN h
  ELSE IF is_duplicate(h, cmd) THEN h
  ELSE [h EXCEPT !.adding = Some(cmd)]

\* what a step of History::add leaves alone
HistoryFrame ==
  /\ SessionUnchanged
  /\ DirectoryUnchanged
  /\ UNCHANGED << mode, pc, aliases, line, command, children, previous_stdout, wait_i,
                  pipeline_exit_code, ctrl_c, sigint_seen, result, prev_interrupted,
                  exit_code, should_exit, background_processes >>

\* History::add, the while loop: the history is full, the oldest entry is
\* popped (pop_front of an empty deque is None and removes nothing)
History_add_evict ==
  /\ history.adding # None
  /\ history_full(history)
  /\ history' = [history EXCEPT !.entries = pop_front(@)]
  /\ HistoryFrame

\* History::add after the loop: push_back, save_to_file, return
History_add_push ==
  /\ history.adding # None
  /\ ~history_full(history)
  /\ history' = [history EXCEPT !.entries = Append(@, history.adding[1]),
                                !.adding = None]
  /\ HistoryFrame

\* Shell::run_interactive: readline returned Ok(l); the line is trimmed and,
\* when something is left, given to History::add
run_interactive(l) ==
  /\ mode = "interactive"
  /\ pc = "prompt"
  /\ ~should_exit
  /\ IF trim(l) = << >> THEN UNCHANGED vars
     ELSE /\ line' = l
          /\ pc' = "history_add"
          /\ history' = History_add_call(history, trim(l))
          /\ SessionUnchanged
          /\ DirectoryUnchanged
          /\ UNCHANGED << mode, aliases, command, children, previous_stdout, wait_i,
                          pipeline_exit_code, ctrl_c, sigint_seen, result,
                          prev_interrupted, exit_code, should_exit,
                          background_processes >>

\* Shell::run_interactive: History::add has returned; the line is parsed and
\* executed
run_interactive_parse ==
  /\ SessionUnchanged
  /\ UNCHANGED history
  /\ mode = "interactive"
  /\ pc = "history_add"
  /\ history.adding = None
  /\ ProcessLine(line)

\* Shell::run_interactive: readline returned Eof
readline_eof ==
  /\ OutsideUnchanged
  /\ mode = "interactive"
  /\ pc = "prompt"
  /\ ~should_exit
  /\ should_exit' = TRUE
  /\ UNCHANGED << mode, pc, aliases, line, command, children, previous_stdout, wait_i,
                  pipeline_exit_code, ctrl_c, sigint_seen, result, prev_interrupted,
                  exit_code, background_processes >>

\* Shell::run: the loop ends when should_exit is set
run_break ==
  /\ OutsideUnchanged
  /\ mode = "interactive"
  /\ pc = "prompt"
  /\ should_exit
  /\ pc' = "exited"
  /\ UNCHANGED << mode, aliases, line, command, children, previous_stdout, wait_i,
                  pipeline_exit_code, ctrl_c, sigint_seen, result, prev_interrupted,
                  exit_code, should_exit, background_processes >>

\* Shell::execute_command, a public method a caller may use again and again
execute_command(l) ==
  /\ SessionUnchanged
  /\ UNCHANGED history
  /\ mode = "command"
  /\ pc = "prompt"
  /\ ProcessLine(l)

\* main: what the process exits with when execute_command or run has
\* returned res: exit(1) on Err, else main returns Ok(())
main_status(res) == IF res.ok THEN 0 ELSE 1

\* main: execute_command (-c) or run has returned, and the process ends
main_exit ==
  /\ process_status = None
  /\ \/ mode = "command" /\ pc = "prompt" /\ result.how # "none"
     \/ mode = "interactive" /\ pc = "exited"
  /\ process_status' = Some(IF mode = "command" THEN main_status(result) ELSE 0)
  /\ pc' = "exited"
  /\ DirectoryUnchanged
  /\ UNCHANGED << mode, aliases, line, command, children, previous_stdout, wait_i,
                  pipeline_exit_code, ctrl_c, sigint_seen, result, prev_interrupted,
                  exit_code, should_exit, background_processes, files, resolved,
                  printed, cleanup_calls, history >>

\* execute_pipeline: the stdin of stage i (0-based)
pipeline_stdin(i, pipeline_cmd) ==
  IF i = 0
  THEN IF pipeline_cmd.input_redirect # None
       THEN IF pipeline_cmd.input_redirect[1] \in ReadableFiles
            THEN Ok(FromFile(pipeline_cmd.input_redirect[1], "open"))
            ELSE Err("cannot open input file")
       ELSE Ok(Inherit)
  ELSE Ok(IF previous_stdout # None THEN previous_stdout[1] ELSE Piped)

\* execute_pipeline: the stdout of stage i (0-based) of n
pipeline_stdout(i, n, pipeline_cmd) ==
  IF i = n - 1
  THEN IF pipeline_cmd.output_redirect # None
       THEN IF pipeline_cmd.output_redirect[1] \notin UncreatableFiles
            THEN Ok(FromFile(pipeline_cmd.output_redirect[1], "create"))
            ELSE Err("cannot create output file")
       ELSE IF pipeline_cmd.append_redirect # None
       THEN IF pipeline_cmd.append_redirect[1] \notin UncreatableFiles
            THEN Ok(FromFile(pipeline_cmd.append_redirect[1], "append"))
            ELSE Err("cannot open append file")
       ELSE Ok(Inherit)
  ELSE Ok(Piped)

\* execute_pipeline: after spawning stage i of n, what previous_stdout holds:
\* child.stdout was piped, so take() is Some, and a new Stdio::piped() is stored
previous_stdout_after(i, n) == IF i < n - 1 THEN Some(Piped) ELSE None

\* a loop that goes on to the waiting after its first iteration
spawn_loop_done_first(i, n) == TRUE

\* execute_pipeline: the for loop over commands has spawned stage i (0-based)
\* of n, and ends after the last
spawn_loop_done(i, n) == i + 1 = n

\* execute_pipeline: one iteration of the for loop, then the select! after the last
pipeline_spawn_stage ==
  /\ OutsideUnchanged
  /\ pc = "pipeline_spawn"
  /\ LET commands     == Commands(command[1])
         n            == Len(commands)
         i            == Len(children)
         pipeline_cmd == commands[i + 1]
         stdin        == pipeline_stdin(i, pipeline_cmd)
         stdout       == pipeline_stdout(i, n, pipeline_cmd)
     IN IF resolve_program_path(pipeline_cmd.program) = None
        THEN /\ Return(ResultErr("program not found", "error"))
             /\ UNCHANGED << children, ctrl_c >>
        ELSE IF ~stdin.ok
        THEN /\ Return(ResultErr(stdin.err, "error"))
             /\ UNCHANGED << children, ctrl_c >>
        ELSE IF ~stdout.ok
        THEN /\ Return(ResultErr(stdout.err, "error"))
             /\ UNCHANGED << children, ctrl_c >>
        ELSE /\ children' = Append(children,
                              Child(i, StdioOpen(stdin.val, 2 * i + 1),
                                       StdioOpen(stdout.val, 2 * i + 2)))
             /\ previous_stdout' = previous_stdout_after(i, n)
             /\ IF spawn_loop_done(i, n)
                THEN /\ pc' = "pipeline_wait"
                     /\ wait_i' = 1
                     /\ ctrl_c' = ctrl_c_listen
                ELSE UNCHANGED << pc, wait_i, ctrl_c >>
             /\ UNCHANGED << mode, aliases, pipeline_exit_code, result, prev_interrupted,
                             exit_code, should_exit, background_processes >>
  /\ UNCHANGED << line, command, sigint_seen >>

\* a loop that stops at the first process
pipeline_fut_done_first(i, n) == i >= 1

\* execute_pipeline, pipeline_fut: the for loop over processes has taken the
\* i-th of n processes, and ends after the last
pipeline_fut_done(i, n) == i = n

\* execute_pipeline, pipeline_fut: process.wait() of the next process returns
pipeline_wait ==
  /\ OutsideUnchanged
  /\ pc = "pipeline_wait"
  /\ children[wait_i].state = "exited"
  /\ LET code == ExitCodeOf(children[wait_i].status) IN
       /\ children' = [children EXCEPT ![wait_i].state = "reaped"]
       /\ IF pipeline_fut_done(wait_i, Len(children))
          THEN Return(ResultOk(code, "exited"))
          ELSE /\ wait_i' = wait_i + 1
               /\ pipeline_exit_code' = code
               /\ UNCHANGED << mode, pc, aliases, previous_stdout, result, prev_interrupted,
                               exit_code, should_exit, background_processes >>
  /\ UNCHANGED << line, command, ctrl_c, sigint_seen >>

\* execute_pipeline, the ctrl_c arm of the select!: every pid is signalled
\* and 130 is returned at once
pipeline_ctrl_c ==
  /\ OutsideUnchanged
  /\ pc = "pipeline_wait"
  /\ ctrl_c
  /\ children' = [k \in DOMAIN children |-> [children[k] EXCEPT !.signalled = TRUE]]
  /\ Return(ResultOk(InterruptedCode, "interrupt"))
  /\ UNCHANGED << line, command, ctrl_c, sigint_seen >>

\* execute_single_command, the first arm of the select!: the blocking task
\* has the child's status
single_wait ==
  /\ OutsideUnchanged
  /\ pc = "single_wait"
  /\ children[1].state = "reaped"
  /\ Return(ResultOk(ExitCodeOf(children[1].status), "exited"))
  /\ UNCHANGED << line, command, children, ctrl_c, sigint_seen >>

\* execute_single_command, the ctrl_c arm of the select!: the child is
\* signalled and 130 is returned at once
single_ctrl_c ==
  /\ OutsideUnchanged
  /\ pc = "single_wait"
  /\ ctrl_c
  /\ children' = [children EXCEPT ![1].signalled = TRUE]
  /\ Return(ResultOk(InterruptedCode, "interrupt"))
  /\ UNCHANGED << line, command, ctrl_c, sigint_seen >>

\* ------------------------------------------------------------------------
\* The environment: the child processes and the user's Ctrl-C
\* ------------------------------------------------------------------------

\* a running child ends, with or without an exit code
child_exit(k, status) ==
  /\ OutsideUnchanged
  /\ k \in DOMAIN children
  /\ children[k].state = "running"
  /\ children' = [children EXCEPT ![k].state = "exited", ![k].status = status]
  /\ UNCHANGED << mode, pc, aliases, line, command, previous_stdout, wait_i,
                  pipeline_exit_code, ctrl_c, sigint_seen, result, prev_interrupted,
                  exit_code, should_exit, background_processes >>

\* a child that has ended is reaped away from the select!: child.wait() of
\* the spawn_blocking task (PTY child), or the runtime's reaping of a
\* dropped Child (pipeline stage, once execute_pipeline has returned)
detached_wait(k) ==
  /\ OutsideUnchanged
  /\ k \in DOMAIN children
  /\ children[k].state = "exited"
  /\ \/ children[k].stdin.kind = "pty"
     \/ pc \notin { "pipeline_spawn", "pipeline_wait" }
  /\ children' = [children EXCEPT ![k].state = "reaped"]
  /\ UNCHANGED << mode, pc, aliases, line, command, previous_stdout, wait_i,
                  pipeline_exit_code, ctrl_c, sigint_seen, result, prev_interrupted,
                  exit_code, should_exit, background_processes >>

\* the user presses Ctrl-C while a line is executed: a select! that is
\* waiting is notified, otherwise nothing listens
interrupt ==
  /\ OutsideUnchanged
  /\ pc \in { "single_wait", "pipeline_wait", "pipeline_spawn" }
  /\ sigint_seen' = TRUE
  /\ ctrl_c' = (IF pc \in { "single_wait", "pipeline_wait" } THEN TRUE ELSE ctrl_c)
  /\ UNCHANGED << mode, pc, aliases, line, command, children, previous_stdout, wait_i,
                  pipeline_exit_code, result, prev_interrupted, exit_code, should_exit,
                  background_processes >>

Next ==
  \/ \E l \in Lines : run_interactive(l)
  \/ History_add_evict
  \/ History_add_push
  \/ run_interactive_parse
  \/ readline_eof
  \/ run_break
  \/ \E l \in Lines : execute_command(l)
  \/ pipeline_spawn_stage
  \/ pipeline_wait
  \/ pipeline_ctrl_c
  \/ single_wait
  \/ single_ctrl_c
  \/ \E k \in 1..MaxStages, status \in Statuses : child_exit(k, status)
  \/ \E k \in 1..MaxStages : detached_wait(k)
  \/ interrupt
  \/ main_exit

Spec == Init /\ [][Next]_vars

\* ------------------------------------------------------------------------
\* core/parser.rs under alias tables: Parser::parse called on its own, and
\* the alias built-in run through Shell::execute_command
\* ------------------------------------------------------------------------

MaxAssignments == 2

W_ls == << "l", "s" >>

W_la == << "-", "l", "a" >>

W_c == << "c" >>

W_p == << "p" >>

W_q == << "q" >>

W_x == << "x" >>

W_y == << "y" >>

W_A1 == << "A", "=", "1" >>

W_B2 == << "B", "=", "2" >>

W_un == << "_", "n" >>

\* the words of ws with one space between them
RECURSIVE Sentence(_)
Sentence(ws) ==
  IF ws = << >> THEN << >>
  ELSE IF Len(ws) = 1 THEN ws[1]
  ELSE ws[1] \o << " " >> \o Sentence(Tail(ws))

\* the alias tables a Parser is given through set_alias
AliasTables ==
  { EmptyMap,
    set_alias(EmptyMap, W_ls, Sentence(<< W_ls, W_la >>)),
    set_alias(EmptyMap, W_a, Sentence(<< W_ls, W_la >>)),
    set_alias(set_alias(EmptyMap, W_a, W_b), W_b, W_c),
    set_alias(EmptyMap, W_b, W_b),
    set_alias(set_alias(EmptyMap, W_a, W_b), W_b, << >>) }

\* the lines alias is typed with: a name that starts with a letter, and a
\* name that does not, with a value and with the empty value
AliasLines ==
  { Sentence(<< W_alias, W_x \o << "=" >> \o W_p >>),
    Sentence(<< W_alias, W_un \o << "=" >> \o W_p >>),
    Sentence(<< W_alias, W_un \o << "=" >> >>) }

\* up to MaxAssignments NAME=value words, a program, and arguments
AssignmentLists == UNION { [1..n -> { W_A1, W_B2 }] : n \in 0..MaxAssignments }

ArgumentLists == { << >>, << W_x >>, << W_x, W_y >>, << W_x, W_B2 >> }

PlainLines ==
  { Sentence(as \o << prog >> \o args) :
      as \in AssignmentLists, prog \in { W_p }, args \in ArgumentLists }

W_g == << "g" >>

\* lines with > and >> in one stage, in either order, and with one of them
RedirectInputs ==
  { Sentence(<< W_p, W_gt, W_f, W_gtgt, W_g >>),
    Sentence(<< W_p, W_gtgt, W_g, W_gt, W_f >>),
    Sentence(<< W_p, W_gtgt, W_g >>),
    Sentence(<< W_p, W_pipe, W_q, W_gt, W_f, W_gtgt, W_g >>) }

\* lines that end with a standalone &
BackgroundInputs ==
  { Sentence(<< W_p, W_x, W_amp >>),
    Sentence(<< W_p, W_pipe, W_q, W_amp >>) }

\* lines parse fails on: blank, an empty quoted string, an open quote, a
\* redirection without a file name
ErrorInputs ==
  { << " ", "\t" >>,
    << "\"", "\"" >>,
    << "\"", "a" >>,
    Sentence(<< W_p, W_lt >>),
    Sentence(<< W_p, W_gt >>),
    Sentence(<< W_p, W_gtgt >>),
    Sentence(<< W_p, W_pipe, W_q, W_lt >>) }

W_echo == << "e", "c", "h", "o" >>

\* a word typed between double quotes
Quoted(w) == << "\"" >> \o w \o << "\"" >>

\* echo with a quoted operator or assignment among its words
QuotedInputs ==
  { Sentence(<< W_echo, Quoted(W_pipe), W_x >>),
    Sentence(<< W_echo, Quoted(W_gt), W_f >>),
    Sentence(<< W_echo, Quoted(W_amp) >>),
    Sentence(<< W_echo, Quoted(W_A1) >>) }

\* lines that start with an alias name, pipelines, and a line of assignments
ParserInputs ==
  PlainLines \cup
  { W_ls, Sentence(<< W_ls, W_x >>), Sentence(<< W_a, W_x, W_y >>), W_b,
    Sentence(<< W_un, W_x >>),
    Sentence(<< W_A1, W_a, W_x >>),
    Sentence(<< W_p, W_pipe, W_q >>),
    Sentence(<< W_p, W_pipe, W_A1, W_q >>),
    Sentence(<< W_A1, W_p, W_pipe, W_q >>),
    Sentence(<< W_a, W_pipe, W_b >>),
    Sentence(<< W_p, W_pipe, W_un >>),
    Sentence(<< W_p, W_pipe, W_q, W_pipe, W_B2, W_x >>),
    W_A1 }
  \cup RedirectInputs \cup BackgroundInputs \cup ErrorInputs \cup QuotedInputs

ParserInit ==
  /\ mode = "command"
  /\ pc = "prompt"
  /\ aliases \in AliasTables
  /\ line = << >>
  /\ command = None
  /\ children = << >>
  /\ previous_stdout = None
  /\ wait_i = 0
  /\ pipeline_exit_code = 0
  /\ ctrl_c = FALSE
  /\ sigint_seen = FALSE
  /\ result = ResultOk(0, "none")
  /\ prev_interrupted = FALSE
  /\ exit_code = 0
  /\ should_exit = FALSE
  /\ background_processes = { }
  /\ files = InstalledFiles
  /\ resolved = None
  /\ printed = { }
  /\ cleanup_calls = 0
  /\ SessionStart

\* Parser::parse(l) called on the parser as it is, nothing being executed
parser_parse(l) ==
  /\ OutsideUnchanged
  /\ pc = "prompt"
  /\ line' = l
  /\ LET parsed == parse(aliases, l) IN
       /\ command' = (IF parsed.ok THEN Some(parsed.val) ELSE None)
       /\ result' = (IF parsed.ok THEN ResultOk(0, "parsed")
                     ELSE ResultErr(parsed.err, "parse_error"))
  /\ UNCHANGED << mode, pc, aliases, children, previous_stdout, wait_i,
                  pipeline_exit_code, ctrl_c, sigint_seen, prev_interrupted,
                  exit_code, should_exit, background_processes >>

ParserNext ==
  \/ \E l \in AliasLines : execute_command(l)
  \/ \E l \in ParserInputs : parser_parse(l)

ParserSpec == ParserInit /\ [][ParserNext]_vars

\* ------------------------------------------------------------------------
\* core/parser.rs: Parser::tokenize, seen through Parser::parse on lines of
\* letters, blanks, quote characters and backslashes
\* ------------------------------------------------------------------------

MaxInputLen == 5

TokenChars == { "a", " ", "'", "\"", "\\" }

\* the lines of the tests and of the documentation, and lines with a tab
ExampleInputs ==
  { << "c", "m", "d", " ", "'", "i", "t", "'", "\\", "'", "'", "s", "'" >>,
    << "\"", "a", "b", "c" >>,
    << "e", "c", "h", "o", " ", "\"", "h", "e", "l", "l", "o", " ",
       "w", "o", "r", "l", "d", "\"" >>,
    << "a", "\t", "b" >>,
    << "'", "a", "\t", "b", "'" >> }

TokenizerInputs ==
  UNION { [1..n -> TokenChars] : n \in 0..MaxInputLen } \cup ExampleInputs

TokenizerInit ==
  /\ mode = "command"
  /\ pc = "prompt"
  /\ aliases = EmptyMap
  /\ line \in TokenizerInputs
  /\ command = None
  /\ children = << >>
  /\ previous_stdout = None
  /\ wait_i = 0
  /\ pipeline_exit_code = 0
  /\ ctrl_c = FALSE
  /\ sigint_seen = FALSE
  /\ result = ResultOk(0, "none")
  /\ prev_interrupted = FALSE
  /\ exit_code = 0
  /\ should_exit = FALSE
  /\ background_processes = { }
  /\ files = InstalledFiles
  /\ resolved = None
  /\ printed = { }
  /\ cleanup_calls = 0
  /\ SessionStart

\* Parser::parse on the input drawn, once
tokenizer_parse ==
  /\ result.how = "none"
  /\ parser_parse(line)

TokenizerNext == tokenizer_parse

TokenizerSpec == TokenizerInit /\ [][TokenizerNext]_vars

\* ------------------------------------------------------------------------
\* core/executor.rs: Executor::resolve_program_path on file systems that
\* hold the candidates of one name in the directories of PATH
\* ------------------------------------------------------------------------

\* the files a directory may hold besides the installed ones: c with three
\* of the extensions, and c itself
CandidateFiles ==
  { W_c \o << "." >> \o executable_extensions[1],
    W_c \o << "." >> \o executable_extensions[2],
    W_c \o << "." >> \o executable_extensions[4],
    W_c }

FileSystems ==
  { [dir \in Directories |-> InstalledFiles[dir] \cup extra[dir]] :
      extra \in [Directories -> SUBSET CandidateFiles] }

\* the names given to the resolver: without and with a path separator
ResolverNames ==
  { W_c, W_a, W_b, W_nosuch,
    << "/", "b", "i", "n", "/", "a" >>, << "/", "b", "i", "n" >>,
    << "/", "b", "i", "n", "/", "c" >>, << "b", "i", "n", "\\", "c" >> }

ResolverInit ==
  /\ mode = "command"
  /\ pc = "prompt"
  /\ aliases = EmptyMap
  /\ line = << >>
  /\ command = None
  /\ children = << >>
  /\ previous_stdout = None
  /\ wait_i = 0
  /\ pipeline_exit_code = 0
  /\ ctrl_c = FALSE
  /\ sigint_seen = FALSE
  /\ result = ResultOk(0, "none")
  /\ prev_interrupted = FALSE
  /\ exit_code = 0
  /\ should_exit = FALSE
  /\ background_processes = { }
  /\ files \in FileSystems
  /\ resolved = None
  /\ printed = { }
  /\ cleanup_calls = 0
  /\ SessionStart

\* Executor::resolve_program_path(program_name) on the file system as it is
resolve(program_name) ==
  /\ resolved' = Some([name |-> program_name, path |-> resolve_program_path(program_name)])
  /\ UNCHANGED << mode, pc, aliases, line, command, children, previous_stdout, wait_i,
                  pipeline_exit_code, ctrl_c, sigint_seen, result, prev_interrupted,
                  exit_code, should_exit, background_processes, files, printed,
                  cleanup_calls, process_status, history, current_dir, process_env >>

ResolverNext == \E program_name \in ResolverNames : resolve(program_name)

ResolverSpec == ResolverInit /\ [][ResolverNext]_vars

\* ------------------------------------------------------------------------
\* core/executor.rs: Executor::cleanup_background_processes on a registry
\* of background processes
\* ------------------------------------------------------------------------

MaxJobs == 3

MaxCleanups == 2

\* a loop that takes every entry it polls as completed
cleanup_completed_all == background_processes

\* cleanup_background_processes, first loop: the pids whose try_wait gives
\* Ok(Some(status))
cleanup_completed ==
  { pid \in background_processes : children[pid].state = "exited" }

\* the line [pid] Done code
DoneNotice(pid) == [pid |-> pid, code |-> ExitCodeOf(children[pid].status)]

ReaperInit ==
  /\ mode = "command"
  /\ pc = "prompt"
  /\ aliases = EmptyMap
  /\ line = << >>
  /\ command = None
  /\ \E n \in 0..MaxJobs :
       /\ children = [k \in 1..n |-> Child(k - 1, Inherit, Inherit)]
       /\ background_processes = 1..n
  /\ previous_stdout = None
  /\ wait_i = 0
  /\ pipeline_exit_code = 0
  /\ ctrl_c = FALSE
  /\ sigint_seen = FALSE
  /\ result = ResultOk(0, "none")
  /\ prev_interrupted = FALSE
  /\ exit_code = 0
  /\ should_exit = FALSE
  /\ files = InstalledFiles
  /\ resolved = None
  /\ printed = { }
  /\ cleanup_calls = 0
  /\ SessionStart

\* Executor::cleanup_background_processes: try_wait reaps what has exited
cleanup_background_processes ==
  /\ cleanup_calls < MaxCleanups
  /\ cleanup_calls' = cleanup_calls + 1
  /\ printed' = printed \cup { DoneNotice(pid) : pid \in cleanup_completed }
  /\ background_processes' = background_processes \ cleanup_completed
  /\ children' = [k \in DOMAIN children |->
                    IF k \in cleanup_completed
                    THEN [children[k] EXCEPT !.state = "reaped"] ELSE children[k]]
  /\ UNCHANGED << mode, pc, aliases, line, command, previous_stdout, wait_i,
                  pipeline_exit_code, ctrl_c, sigint_seen, result, prev_interrupted,
                  exit_code, should_exit, files, resolved, process_status, history,
                  current_dir, process_env >>

ReaperNext ==
  \/ \E k \in 1..MaxJobs, status \in Statuses : child_exit(k, status)
  \/ cleanup_background_processes

ReaperSpec == ReaperInit /\ [][ReaperNext]_vars

\* ------------------------------------------------------------------------
\* core/history.rs: History::add called on histories of every configuration
\* ------------------------------------------------------------------------

MaxEntries == 2

\* HistoryConfig (config/mod.rs), file_path None
HistoryConfigs ==
  [max_entries : 0..MaxEntries, ignore_duplicates : BOOLEAN,
   ignore_space_prefixed : BOOLEAN]

\* the commands add is given: two words, one with a space in front, blank
\* and empty ones
HistoryCommands == { W_a, W_b, << " " >> \o W_a, << " " >>, << >> }

HistoryInit ==
  /\ mode = "command"
  /\ pc = "prompt"
  /\ aliases = EmptyMap
  /\ line = << >>
  /\ command = None
  /\ children = << >>
  /\ previous_stdout = None
  /\ wait_i = 0
  /\ pipeline_exit_code = 0
  /\ ctrl_c = FALSE
  /\ sigint_seen = FALSE
  /\ result = ResultOk(0, "none")
  /\ prev_interrupted = FALSE
  /\ exit_code = 0
  /\ should_exit = FALSE
  /\ background_processes = { }
  /\ files = InstalledFiles
  /\ resolved = None
  /\ printed = { }
  /\ cleanup_calls = 0
  /\ process_status = None
  /\ history \in { History_new(config) : config \in HistoryConfigs }
  /\ current_dir = StartDirectory
  /\ process_env = [OLDPWD |-> None, PWD |-> None, cwd |-> StartDirectory]

\* History::add(cmd) is called on a history no add is running on
History_add(cmd) ==
  /\ history.adding = None
  /\ history' = History_add_call(history, cmd)
  /\ HistoryFrame

HistoryNext ==
  \/ \E cmd \in HistoryCommands : History_add(cmd)
  \/ History_add_evict
  \/ History_add_push

HistorySpec == HistoryInit /\ [][HistoryNext]_vars

\* a loop iteration or the push that can be taken is taken
HistoryFairSpec ==
  HistorySpec /\ WF_vars(History_add_evict) /\ WF_vars(History_add_push)

\* ------------------------------------------------------------------------
\* builtins/cd.rs: the working directory under cd and other commands
\* ------------------------------------------------------------------------

W_pwd == << "p", "w", "d" >>

\* what cd is given: nothing, `-`, a directory, a relative name, the parent,
\* a missing path, a regular file, a directory that may not be entered, `~`
CdArguments ==
  { << >>, << "-" >>, DirText("/bin"), << "b", "i", "n" >>, << ".", "." >>,
    << "/", "n", "o" >>, DirText("/bin") \o << "/" >> \o W_a, LockedDirectory,
    << "~" >> }

\* cd with each argument, another built-in, an external command, a pipeline
CdLines ==
  { Sentence(<< W_cd >> \o (IF arg = << >> THEN << >> ELSE << arg >>)) :
      arg \in CdArguments }
    \cup { W_pwd, W_a, PipelineText(<< W_a, W_a >>) }

CdInit ==
  /\ mode = "command"
  /\ pc = "prompt"
  /\ aliases = EmptyMap
  /\ line = << >>
  /\ command = None
  /\ children = << >>
  /\ previous_stdout = None
  /\ wait_i = 0
  /\ pipeline_exit_code = 0
  /\ ctrl_c = FALSE
  /\ sigint_seen = FALSE
  /\ result = ResultOk(0, "none")
  /\ prev_interrupted = FALSE
  /\ exit_code = 0
  /\ should_exit = FALSE
  /\ background_processes = { }
  /\ files = InstalledFiles
  /\ resolved = None
  /\ printed = { }
  /\ cleanup_calls = 0
  /\ process_status = None
  /\ history = History_new(ShellHistoryConfig)
  /\ current_dir \in { StartDirectory, << "/", "u", "s", "r" >> }
  /\ \E old \in { None, Some(DirText("/usr/bin")) } :
       process_env = [OLDPWD |-> old, PWD |-> None, cwd |-> current_dir]

CdNext ==
  \/ \E l \in CdLines : execute_command(l)
  \/ pipeline_spawn_stage
  \/ pipeline_wait
  \/ single_wait
  \/ \E k \in 1..2, status \in Statuses : child_exit(k, status)
  \/ \E k \in 1..2 : detached_wait(k)

CdSpec == CdInit /\ [][CdNext]_vars

\* ------------------------------------------------------------------------
\* What the claims speak of
\* ------------------------------------------------------------------------

\* the tokens of a line, cut at the standalone `|` tokens
RECURSIVE SplitAtPipes(_)
SplitAtPipes(tokens) ==
  LET bars == { k \in 1..Len(tokens) : tokens[k] = W_pipe } IN
    IF bars = { } THEN << tokens >>
    ELSE LET first == CHOOSE k \in bars : \A j \in bars : k <= j IN
           << SubSeq(tokens, 1, first - 1) >>
             \o SplitAtPipes(SubSeq(tokens, first + 1, Len(tokens)))

\* the stages typed on the line read last
TypedStages ==
  LET tokens == tokenize(trim(line)) IN
    SplitAtPipes(IF tokens.ok THEN tokens.val ELSE << >>)

\* every typed stage is an external program that resolves, in the foreground
AllStagesRun ==
  \A k \in 1..Len(TypedStages) :
    /\ Len(TypedStages[k]) = 1
    /\ get_builtin(TypedStages[k][1]) = None
    /\ resolve_program_path(TypedStages[k][1]) # None

\* Executor::execute has spawned what it spawns for the line read last
SpawningOver ==
  \/ pc \in { "single_wait", "pipeline_wait" }
  \/ pc = "prompt" /\ result.how \in { "exited", "interrupt" }

\* execute returned for the line read last, through the arm named how
Returned(how) == pc = "prompt" /\ command # None /\ result.how = how

IsPipeline == command # None /\ command[1].pipes # << >>

AllReaped == \A k \in DOMAIN children : children[k].state = "reaped"

\* C1: a line of N stages, each an external program that resolves, has
\* exactly N child processes spawned for it, stage by stage from the left
C1_SpawnsEveryStage ==
  (command # None /\ AllStagesRun /\ SpawningOver) =>
    /\ Len(children) = Len(TypedStages)
    /\ \A k \in DOMAIN children : children[k].stage = k - 1

\* C2: for a line of N stages, parse returns stage 0 with the N-1 later
\* stages in its pipes list, from the left
C2_PipesHoldLaterStages ==
  command # None =>
    /\ command[1].program = TypedStages[1][1]
    /\ Len(command[1].pipes) = Len(TypedStages) - 1
    /\ \A k \in DOMAIN command[1].pipes :
         command[1].pipes[k].program = TypedStages[k + 1][1]

\* C3: in a pipeline the stdin of stage i+1 is the read end of the pipe that
\* the stdout of stage i writes to
C3_StdinIsPreviousStdout ==
  IsPipeline =>
    \A k \in DOMAIN children :
      k + 1 \in DOMAIN children =>
        /\ children[k].stdout.kind = "pipe"
        /\ children[k + 1].stdin.kind = "pipe"
        /\ children[k + 1].stdin.id = children[k].stdout.id

\* C4: a single foreground command has returned 130 for an interrupt only
\* when its child has ended and has been reaped
C4_SingleReapedBefore130 ==
  (Returned("interrupt") /\ ~IsPipeline) => AllReaped

\* C5: a pipeline has returned 130 for an interrupt only when every spawned
\* stage has been signalled, has ended and has been reaped
C5_PipelineReapedBefore130 ==
  (Returned("interrupt") /\ IsPipeline) =>
    /\ \A k \in DOMAIN children : children[k].signalled
    /\ AllReaped

C7_InterruptConsumed ==
  /\ (pc \in { "single_wait", "pipeline_wait" } /\ result.how = "interrupt"
        /\ ~sigint_seen) => ~ctrl_c
  /\ (prev_interrupted /\ SpawningOver /\ pc = "prompt" /\ ~sigint_seen) =>
       /\ result.how = "exited"
       /\ children[Len(children)].state = "reaped"
       /\ result.code = (IF children[Len(children)].status = None THEN -1
                         ELSE children[Len(children)].status[1])

\* C7 happens: after an interrupted command, one that ran to its exit code 0
C7_Witness ==
  /\ prev_interrupted
  /\ Returned("exited")
  /\ ~sigint_seen
  /\ result.code = 0
  /\ children[1].status = Some(0)

\* C8: when execute_pipeline fails with program not found, no process of
\* the pipeline has been spawned
C8_NoSpawnWhenUnresolved ==
  (Returned("error") /\ IsPipeline /\ result.err = "program not found") =>
    children = << >>

C10_BackgroundSpawned ==
  (pc = "prompt" /\ command # None /\ command[1].background
     /\ get_builtin(command[1].program) = None /\ command[1].pipes = << >>
     /\ resolve_program_path(command[1].program) # None) =>
    /\ result.ok
    /\ result.code = 0
    /\ Len(children) = 1
    /\ Cardinality(background_processes) = 1

\* every stage reachable from the commands of cmds through pipes, in order
RECURSIVE FlattenPipes(_)
FlattenPipes(cmds) ==
  IF cmds = << >> THEN << >>
  ELSE << cmds[1] >> \o FlattenPipes(cmds[1].pipes) \o FlattenPipes(Tail(cmds))

ReachableStages(cmd) == FlattenPipes(<< cmd >>)

\* the command executed last is one external program in the foreground
IsSingleExternal ==
  /\ command # None
  /\ command[1].pipes = << >>
  /\ ~command[1].background
  /\ get_builtin(command[1].program) = None

\* the input file of the first stage or the output file of the last stage
\* of cmd cannot be prepared
TargetUnprepared(cmd) ==
  LET stages == ReachableStages(cmd)
      first  == stages[1]
      last   == stages[Len(stages)]
  IN \/ first.input_redirect # None /\ first.input_redirect[1] \notin ReadableFiles
     \/ last.output_redirect # None /\ last.output_redirect[1] \in UncreatableFiles
     \/ last.append_redirect # None /\ last.append_redirect[1] \in UncreatableFiles

\* C11: the process of a single external foreground command reads the file
\* of its input redirection when there is one and the shell's input
\* otherwise, and writes the file of its output or append redirection when
\* there is one and the shell's output otherwise
C11_SingleRedirectsApplied ==
  (IsSingleExternal /\ Len(children) = 1) =>
    LET cmd == command[1]
        c   == children[1]
    IN /\ IF cmd.input_redirect # None
          THEN c.stdin.kind = "open" /\ c.stdin.name = cmd.input_redirect[1]
          ELSE c.stdin.kind \in { "inherit", "pty" }
       /\ IF cmd.output_redirect # None
          THEN c.stdout.kind = "create" /\ c.stdout.name = cmd.output_redirect[1]
          ELSE IF cmd.append_redirect # None
          THEN c.stdout.kind = "append" /\ c.stdout.name = cmd.append_redirect[1]
          ELSE c.stdout.kind \in { "inherit", "pty" }

\* C12: a command whose first stage has an input file that cannot be opened,
\* or whose last stage has an output or append file that cannot be created,
\* has no process at any time, and has failed once it has returned
C12_NoSpawnWhenTargetFails ==
  (command # None /\ get_builtin(command[1].program) = None
     /\ ~command[1].background /\ TargetUnprepared(command[1])) =>
    /\ children = << >>
    /\ (pc = "prompt" => ~result.ok)

\* C13: a command with stages in pipes has not returned from the built-in
\* of its first stage: it went through execute_pipeline, whatever its program
C13_PipesTakePipelinePath ==
  (pc = "prompt" /\ IsPipeline) => result.how # "builtin"

\* Parser::parse has just returned Ok for the line read last
JustParsed == pc = "prompt" /\ command # None /\ result.how = "parsed"

\* the words typed on the line read last, none when a quote is left open
LineTokens ==
  LET tokens == tokenize(trim(line)) IN IF tokens.ok THEN tokens.val ELSE << >>

\* a word that is no operator and holds no '='
IsPlainWord(t) == t \notin { W_lt, W_gt, W_gtgt, W_amp, W_pipe } /\ ~contains(t, "=")

AllPlain(ws) == \A k \in DOMAIN ws : IsPlainWord(ws[k])

\* the line read last starts with an alias name whose value has words
StartsWithAlias ==
  /\ LineTokens # << >>
  /\ LineTokens[1] \in DOMAIN aliases
  /\ tokenize(aliases[LineTokens[1]]).ok
  /\ tokenize(aliases[LineTokens[1]]).val # << >>

\* the words of the value of the alias the line read last starts with
AliasWords == tokenize(aliases[LineTokens[1]]).val

\* C14: when the line n r1 .. rm starts with the alias n of value p a1 .. ak,
\* the parsed command has program p and args a1 .. ak, r1 .. rm
C14_AliasRoundTrip ==
  (JustParsed /\ StartsWithAlias /\ AllPlain(AliasWords) /\ AllPlain(Tail(LineTokens))) =>
    /\ command[1].program = AliasWords[1]
    /\ command[1].args = Tail(AliasWords) \o Tail(LineTokens)

\* C15: the program of a line that starts with an alias name is the first
\* word of that alias's value, whether or not that word is an alias name too
C15_AliasAppliedOnce ==
  (JustParsed /\ StartsWithAlias) => command[1].program = AliasWords[1]

\* the line read last was an alias line, and it has been parsed and executed
AliasExecuted ==
  /\ pc = "prompt"
  /\ LineTokens # << >>
  /\ LineTokens[1] = W_alias
  /\ result.how = "builtin"

\* C16: once the line alias n=v, n starting with a letter, has been parsed
\* and executed, the alias table maps n to v (so that the next line that
\* starts with n is parsed with it)
C16_AliasLineSetsAlias ==
  AliasExecuted =>
    \A k \in 2..Len(LineTokens) :
      LET word == LineTokens[k]
          eq   == find(word, "=")
      IN (eq # None /\ eq[1] > 0 /\ word[1] \in Letters) =>
           LET n == SubSeq(word, 1, eq[1])
               v == SubSeq(word, eq[1] + 2, Len(word))
           IN n \in DOMAIN aliases /\ aliases[n] = v

\* Parser::parse has just returned, Ok or Err, for the line read last
ParseReturned == pc = "prompt" /\ result.how \in { "parsed", "parse_error" }

\* a word NAME=value: it starts with a letter and has an '=' after it
IsNameValue(w) == w # << >> /\ w[1] \in Letters /\ \E k \in 2..Len(w) : w[k] = "="

\* how many words at the start of ws are NAME=value words
RECURSIVE LeadingCount(_)
LeadingCount(ws) ==
  IF ws # << >> /\ IsNameValue(ws[1]) THEN 1 + LeadingCount(Tail(ws)) ELSE 0

NameOf(w) == SubSeq(w, 1, (CHOOSE k \in 1..Len(w) : w[k] = "=" /\ \A j \in 1..(k - 1) : w[j] # "=") - 1)

ValueOf(w) == SubSeq(w, Len(NameOf(w)) + 2, Len(w))

\* the environment the NAME=value words of ws stand for, a later word winning
RECURSIVE EnvOf(_)
EnvOf(ws) ==
  IF ws = << >> THEN EmptyMap
  ELSE LET front == SubSeq(ws, 1, Len(ws) - 1)
           last  == ws[Len(ws)]
       IN [n \in (DOMAIN EnvOf(front)) \cup { NameOf(last) } |->
             IF n = NameOf(last) THEN ValueOf(last) ELSE EnvOf(front)[n]]

\* the line read last is A1=v1 .. Ak=vk prog x1 .. xm: NAME=value words, then
\* a program that is no alias name, then words that hold no '='
IsPrefixedLine ==
  /\ LineTokens # << >>
  /\ LineTokens[1] \notin DOMAIN aliases
  /\ LET k == LeadingCount(LineTokens) IN
       /\ k < Len(LineTokens)
       /\ LineTokens[k + 1] \notin DOMAIN aliases
       /\ AllPlain(SubSeq(LineTokens, k + 1, Len(LineTokens)))

\* C17: for a line A1=v1 .. Ak=vk prog x1 .. xm, no xj holding '=' and prog
\* no alias name, parse succeeds with program prog, args x1 .. xm and the
\* environment that maps each Ai to vi
C17_EnvironmentPrefix ==
  (ParseReturned /\ IsPrefixedLine) =>
    LET k == LeadingCount(LineTokens) IN
      /\ command # None
      /\ command[1].program = LineTokens[k + 1]
      /\ command[1].args = SubSeq(LineTokens, k + 2, Len(LineTokens))
      /\ command[1].environment = EnvOf(SubSeq(LineTokens, 1, k))

\* C17 happens: two assignments, a program and two arguments have been parsed
C17_Witness ==
  /\ ParseReturned
  /\ IsPrefixedLine
  /\ LeadingCount(LineTokens) = 2
  /\ Len(LineTokens) = 5
  /\ command # None
  /\ DOMAIN command[1].environment = { << "A" >>, << "B" >> }
  /\ command[1].args = << W_x, W_y >>

\* the line read last has words only, no operator, and its program is no
\* alias name
IsWordsLine ==
  /\ LineTokens # << >>
  /\ LineTokens[1] \notin DOMAIN aliases
  /\ \A k \in DOMAIN LineTokens :
       LineTokens[k] \notin { W_lt, W_gt, W_gtgt, W_amp, W_pipe }
  /\ LET k == LeadingCount(LineTokens) IN
       k < Len(LineTokens) /\ LineTokens[k + 1] \notin DOMAIN aliases

\* C18: only the NAME=value words before the program are taken as the
\* environment; every word after the program is an argument, a NAME=value
\* word included
C18_ExtractionStopsAtProgram ==
  (ParseReturned /\ IsWordsLine) =>
    LET k == LeadingCount(LineTokens) IN
      /\ command # None
      /\ command[1].environment = EnvOf(SubSeq(LineTokens, 1, k))
      /\ command[1].args = SubSeq(LineTokens, k + 2, Len(LineTokens))

\* the line read last is a pipeline whose stages are NAME=value words, a
\* program, and words without '=', no word being an alias name
IsPrefixedPipeline ==
  /\ LineTokens # << >>
  /\ \A k \in DOMAIN LineTokens : LineTokens[k] \notin DOMAIN aliases
  /\ \A j \in DOMAIN TypedStages :
       LET stage == TypedStages[j]
           k     == LeadingCount(stage)
       IN k < Len(stage) /\ AllPlain(SubSeq(stage, k + 1, Len(stage)))

\* C19: the NAME=value words at the start of stage j of a pipeline are the
\* environment of stage j and of no other stage, and the program of stage j
\* is the first word of stage j that is not of that form
C19_EnvironmentLocalToStage ==
  (JustParsed /\ IsPrefixedPipeline) =>
    LET stages == ReachableStages(command[1]) IN
      /\ Len(stages) = Len(TypedStages)
      /\ \A j \in DOMAIN TypedStages :
           LET k == LeadingCount(TypedStages[j]) IN
             /\ stages[j].environment = EnvOf(SubSeq(TypedStages[j], 1, k))
             /\ stages[j].program = TypedStages[j][k + 1]

\* C20: the program of a parsed command, and of every stage reachable from
\* it through pipes, is not the empty string
C20_ProgramNonEmpty ==
  command # None =>
    \A j \in DOMAIN ReachableStages(command[1]) :
      ReachableStages(command[1])[j].program # << >>

\* C21: no stage of a parsed command has both output_redirect and
\* append_redirect set: of > and >> in one stage only the last one is kept
C21_OneOutputRedirect ==
  JustParsed =>
    \A j \in DOMAIN ReachableStages(command[1]) :
      LET stage == ReachableStages(command[1])[j] IN
        ~(stage.output_redirect # None /\ stage.append_redirect # None)

\* C22: when the last word of the line is a standalone &, the command parse
\* returns has background set, and & is an argument of no stage
C22_TrailingAmpersand ==
  (JustParsed /\ Len(LineTokens) >= 2 /\ LineTokens[Len(LineTokens)] = W_amp) =>
    /\ command[1].background
    /\ \A j \in DOMAIN ReachableStages(command[1]) :
         \A k \in DOMAIN ReachableStages(command[1])[j].args :
           ReachableStages(command[1])[j].args[k] # W_amp

\* the messages of the kinds EmptyCommand, UnterminatedQuote, NoCommandFound
\* and MissingRedirectTarget
FourKinds ==
  { "Empty command", "Unterminated quote",
    "No command found after environment variables",
    "Expected filename after '<'", "Expected filename after '>'",
    "Expected filename after '>>'" }

ParseFailed == ParseReturned /\ ~result.ok

RECURSIVE ScanMode(_, _)
ScanMode(input, k) ==
  IF k = 0 THEN "out"
  ELSE LET before == ScanMode(input, k - 1)
           ch     == input[k]
       IN CASE before = "out" ->
                 (IF ch = "'" THEN "sq" ELSE IF ch = "\"" THEN "dq" ELSE "out")
            [] before = "sq" ->
                 (IF ch = "\\" THEN "sq_esc" ELSE IF ch = "'" THEN "out" ELSE "sq")
            [] before = "dq" ->
                 (IF ch = "\\" THEN "dq_esc" ELSE IF ch = "\"" THEN "out" ELSE "dq")
            [] before = "sq_esc" -> "sq"
            [] before = "dq_esc" -> "dq"

\* what character k of input is: a separator of words, a quote character
\* that opens or closes, a backslash that is dropped, or a character kept
CharRole(input, k) ==
  LET before == ScanMode(input, k - 1)
      ch     == input[k]
  IN CASE before = "out" ->
            (IF ch \in { " ", "\t" } THEN "sep"
             ELSE IF ch \in { "'", "\"" } THEN "delim" ELSE "kept")
       [] before = "sq" ->
            (IF ch = "\\" THEN "dropped" ELSE IF ch = "'" THEN "delim" ELSE "kept")
       [] before = "dq" ->
            (IF ch = "\\" THEN "dropped" ELSE IF ch = "\"" THEN "delim" ELSE "kept")
       [] OTHER -> "kept"

\* the kept characters of input from position lo to position hi
RECURSIVE KeptChars(_, _, _)
KeptChars(input, lo, hi) ==
  IF lo > hi THEN << >>
  ELSE (IF CharRole(input, lo) = "kept" THEN << input[lo] >> ELSE << >>)
         \o KeptChars(input, lo + 1, hi)

\* the words of input after position a, a separator or 0: the kept
\* characters between two neighbouring separators, when there are any
RECURSIVE WordsAfter(_, _)
WordsAfter(input, a) ==
  IF a > Len(input) THEN << >>
  ELSE LET ends == { k \in (a + 1)..Len(input) : CharRole(input, k) = "sep" }
                     \cup { Len(input) + 1 }
           b    == CHOOSE k \in ends : \A j \in ends : k <= j
           word == KeptChars(input, a + 1, b - 1)
       IN (IF word = << >> THEN << >> ELSE << word >>) \o WordsAfter(input, b)

ExpectedTokens(input) == WordsAfter(input, 0)

EndsInQuote(input) == ScanMode(input, Len(input)) # "out"

\* the tokens of the line parsed last, read off the command: without
\* operators and assignments they are the program and the arguments
ParsedTokens == IF command = None THEN << >> ELSE << command[1].program >> \o command[1].args

\* C24: tokenize fails with Unterminated quote exactly when the scan of its
\* input ends inside an open quote
C24_UnterminatedQuote ==
  ParseReturned =>
    ((~result.ok /\ result.err = "Unterminated quote") <=> EndsInQuote(trim(line)))

\* C24 happens: cmd 'it'\''s' has failed with Unterminated quote
C24_Witness ==
  /\ ParseReturned
  /\ line = << "c", "m", "d", " ", "'", "i", "t", "'", "\\", "'", "'", "s", "'" >>
  /\ result.err = "Unterminated quote"

\* C25: on a line without backslash, words are split at blanks outside
\* quotes only; the text between a quote character and the next same one is
\* kept in its word without the two, a quote character of the other kind
\* inside it included
C25_QuotesKeepWords ==
  (ParseReturned /\ ~contains(line, "\\") /\ ~EndsInQuote(trim(line))) =>
    ParsedTokens = ExpectedTokens(trim(line))

\* C25 happens: echo "hello world" has two tokens, and a quoted word holds
\* a quote character of the other kind
C25_Witness ==
  /\ ParseReturned
  /\ \/ /\ Len(line) = 18
        /\ ParsedTokens = << << "e", "c", "h", "o" >>,
                             << "h", "e", "l", "l", "o", " ", "w", "o", "r", "l", "d" >> >>
     \/ ParsedTokens = << << "a", "'", " " >> >>

\* C26: inside quotes a backslash is dropped and the character after it is
\* kept as it is, a quote character included; outside quotes a backslash is
\* kept and the character after it is read as any other
C26_BackslashInQuotesOnly ==
  (ParseReturned /\ contains(line, "\\") /\ ~EndsInQuote(trim(line))) =>
    ParsedTokens = ExpectedTokens(trim(line))

\* C26 happens: a backslash inside quotes kept the quote after it, and a
\* backslash outside quotes was kept before a blank that split the word
C26_Witness ==
  /\ ParseReturned
  /\ \/ line = << "\"", "a", "\\", "\"", "\"" >>
          /\ ParsedTokens = << << "a", "\"" >> >>
     \/ line = << "a", "\\", " ", "a" >>
          /\ ParsedTokens = << << "a", "\\" >>, << "a" >> >>

HasSeparator(name) == contains(name, "/") \/ contains(name, "\\")

\* the files that stand for name in a directory: name with an extension, and
\* name itself
CandidatesOf(name) ==
  { name \o << "." >> \o executable_extensions[k] : k \in DOMAIN executable_extensions }
    \cup { name }

\* the entries of PATH that are directories holding a candidate of name
HoldingEntries(name) ==
  { k \in DOMAIN PATH :
      PATH[k] \in Directories /\ CandidatesOf(name) \cap files[PATH[k]] # { } }

\* C27: a name without separator resolves to a candidate in the first
\* directory of PATH that holds one, to name.exe when that directory holds
\* it and to the bare name only when it holds no other candidate; it is not
\* found only when no directory of PATH holds a candidate
C27_EarliestDirectoryWins ==
  (resolved # None /\ ~HasSeparator(resolved[1].name)) =>
    LET name == resolved[1].name
        path == resolved[1].path
        hits == HoldingEntries(name)
    IN IF hits = { } THEN path = None
       ELSE LET first == CHOOSE k \in hits : \A j \in hits : k <= j
                here  == CandidatesOf(name) \cap files[PATH[first]]
                exe   == name \o << ".", "e", "x", "e" >>
            IN /\ path # None
               /\ path[1][1] = PATH[first]
               /\ path[1][2] \in here
               /\ exe \in here => path[1][2] = exe
               /\ path[1][2] = name => here = { name }

\* C27 happens: the first directory holds the bare name only, a later one
\* holds name.exe, and the bare name of the first directory is returned
C27_Witness ==
  /\ resolved # None
  /\ resolved[1].name = W_c
  /\ CandidatesOf(W_c) \cap files["/bin"] = { W_c }
  /\ (W_c \o << ".", "e", "x", "e" >>) \in files["/usr/bin"]
  /\ resolved[1].path = Some(<< "/bin", W_c >>)

\* C28: a name with a separator resolves to itself, and only when it is a
\* regular file: a directory is not found
C28_LiteralPathIsFile ==
  (resolved # None /\ HasSeparator(resolved[1].name)) =>
    LET name == resolved[1].name
        path == resolved[1].path
    IN /\ path # None => path = Some(<< "", name >>)
       /\ path # None <=> name \in ExistingPaths \ DirectoryPaths

\* the registered processes that have exited
ExitedJobs == { pid \in background_processes : children[pid].state = "exited" }

\* C29: a call of cleanup_background_processes takes out of the registry the
\* processes that have exited and no other, printing one line for each; when
\* none has exited it changes and prints nothing; and it leaves no exited
\* process in the registry, so that a second call in a row is of that kind
C29_ReaperRemovesExited ==
  [][ cleanup_calls' = cleanup_calls + 1 =>
        /\ background_processes' = background_processes \ ExitedJobs
        /\ Cardinality(printed') = Cardinality(printed) + Cardinality(ExitedJobs)
        /\ ExitedJobs = { } => (background_processes' = background_processes /\ printed' = printed)
        /\ ExitedJobs' = { } ]_vars

\* C29 happens: a call has removed an exited process and kept a running one,
\* and a second call has followed
C29_Witness ==
  /\ cleanup_calls = 2
  /\ printed # { }
  /\ \E pid \in background_processes : children[pid].state = "running"
  /\ \E k \in DOMAIN children : k \notin background_processes

\* C30: when the interactive loop is at a prompt after a turn,
\* cleanup_background_processes has been called, and no process that has
\* exited is in the registry
C30_ReaperEveryTurn ==
  (mode = "interactive" /\ pc = "prompt" /\ line # << >> /\ ~should_exit) =>
    /\ cleanup_calls >= 1
    /\ ExitedJobs = { }

\* C31: run with -c, the process exits with a failure status when the exit
\* code of the command is not 0, and with success when it is 0
C31_StatusFollowsExitCode ==
  (mode = "command" /\ process_status # None /\ result.ok) =>
    (process_status = Some(0) <=> exit_code = 0)

\* C32: in the interactive loop a line that does not parse is reported, no
\* built-in and no process is executed for it, the exit code becomes nonzero
\* and the loop is at the next prompt; no line that ends in a parse or
\* resolution error ends the session
C32_ErrorsKeepSession ==
  [][ (mode = "interactive" /\ pc # "prompt" /\ pc' = "prompt" /\ ~result'.ok) =>
        /\ ~should_exit'
        /\ exit_code' # 0
        /\ result'.err # ""
        /\ result'.how = "parse_error" =>
             /\ command' = None
             /\ children' = << >>
             /\ aliases' = aliases
             /\ current_dir' = current_dir ]_vars

\* C32 happens: a line of assignments without a command has brought the
\* loop back to the prompt, with exit code 1 and the session going on
C32_Witness ==
  /\ mode = "interactive"
  /\ pc = "prompt"
  /\ ~should_exit
  /\ exit_code = 1
  /\ line = << "A", "=", "1" >>
  /\ result.how = "parse_error"
  /\ result.err = "No command found after environment variables"

\* C39: with ignore_space_prefixed, a line typed at the prompt with a space
\* in front leaves the history as it was: nothing is recorded for it
C39_SpacePrefixedNotRecorded ==
  [][ (mode = "interactive" /\ pc = "prompt" /\ pc' = "history_add"
         /\ history.config.ignore_space_prefixed /\ line'[1] = " ") =>
        history' = history ]_vars

\* C33: with max_entries = M >= 1, entries holds at most M commands whenever
\* add has returned, and they are the newest accepted ones in the order they
\* were accepted: entries changes only by losing its oldest entry while it
\* holds M or more, and by getting the accepted command at its back
C33_NewestKept ==
  [][ LET M == history.config.max_entries IN
        M >= 1 =>
          /\ history'.adding = None => Len(history'.entries) <= M
          /\ history'.entries # history.entries =>
               /\ history.adding # None
               /\ \/ /\ Len(history.entries) >= M
                     /\ history'.entries = Tail(history.entries)
                     /\ history'.adding = history.adding
                  \/ /\ history'.entries = Append(history.entries, history.adding[1])
                     /\ history'.adding = None ]_vars

\* C33 happens: the history of two holds two commands and a third has been
\* accepted
C33_Witness ==
  /\ history.config.max_entries = 2
  /\ Len(history.entries) = 2
  /\ history.adding # None

\* C34: with ignore_duplicates, add of a command equal to the most recent
\* entry is never accepted, and no two adjacent entries are equal
C34_NoAdjacentDuplicates ==
  [][ history.config.ignore_duplicates =>
        /\ (history.adding = None /\ history'.adding # None) =>
             back(history.entries) # history'.adding
        /\ \A k \in 1..(Len(history'.entries) - 1) :
             history'.entries[k] # history'.entries[k + 1] ]_vars

\* C34 happens: with ignore_duplicates the history holds two commands
C34_Witness ==
  /\ history.config.ignore_duplicates
  /\ history.adding = None
  /\ Len(history.entries) = 2

\* C40: an accepted command is pushed and add returns, whatever the
\* configuration
C40_AddReturns == (history.adding # None) ~> (history.adding = None)

\* C35: while execute_pipeline waits, every command it was given has been
\* spawned, in order from the left; while it spawns, no wait has begun and
\* no process of the pipeline has been waited for
C35_SpawnedBeforeWait ==
  /\ pc = "pipeline_wait" =>
       /\ Len(children) = Len(Commands(command[1]))
       /\ \A k \in DOMAIN children : children[k].stage = k - 1
  /\ pc = "pipeline_spawn" =>
       /\ wait_i = 0
       /\ Len(children) < Len(Commands(command[1]))
       /\ \A k \in DOMAIN children :
            children[k].stage = k - 1 /\ children[k].state # "reaped"

\* C35 happens: both processes of a pipeline were spawned and the first has
\* been waited for
C35_Witness ==
  /\ pc = "pipeline_wait"
  /\ Len(children) = 2
  /\ wait_i = 2
  /\ children[1].state = "reaped"

\* the line executed last was a cd, which returned code
CdReturned(code) ==
  /\ pc = "prompt"
  /\ command # None
  /\ command[1].program = W_cd
  /\ result = ResultOk(code, "builtin")

\* C36: current_dir changes only in a step in which cd returns 0: no other
\* built-in, no external command or pipeline and no cd that returns 1
\* changes it
C36_OnlyCdMovesCurrentDir ==
  [][ current_dir' # current_dir => CdReturned(0)' ]_vars

\* C36 happens: a cd has moved current_dir and a later cd, which failed,
\* has left it there
C36_Witness ==
  /\ CdReturned(1)
  /\ current_dir = DirText("/bin")
  /\ process_env.PWD = Some(DirText("/bin"))

\* C37: a step after which a cd has returned 1 leaves OLDPWD as it was
C37_FailedCdKeepsOldpwd ==
  [][ CdReturned(1)' => process_env'.OLDPWD = process_env.OLDPWD ]_vars

\* C38: the words of an echo line that were typed in quotes are arguments of
\* echo: a quoted |, >, & or A=1 gives no pipeline stage, no redirect, no
\* background flag and no environment entry
C38_QuotedTokensAreArguments ==
  (ParseReturned /\ line \in QuotedInputs) =>
    /\ command # None
    /\ command[1].program = W_echo
    /\ command[1].args = Tail(LineTokens)
    /\ command[1].pipes = << >>
    /\ command[1].output_redirect = None
    /\ ~command[1].background
    /\ command[1].environment = EmptyMap

====
